---- MODULE Spec2Model ----
(***************************************************************************)
(* Model of ini_config.hpp: the compile-time INI validator/sizer           *)
(* (verify_and_size), the packer (fill_kvp_buffer), the entry cursor       *)
(* (iterator) and the query layer (begin/end(section), get, contains).     *)
(*                                                                         *)
(* Characters are their ASCII codes.  A text is a sequence of codes; a     *)
(* pointer into a text or into kvp_buffer is a 0-based offset, so that     *)
(* *p is At(s, p).  The null pointer is nullptr.                           *)
(***************************************************************************)
EXTENDS Integers, Sequences, FiniteSets, TLC

\* ------------------------------------------------------------------ bounds
MaxLen == 4      \* longest input drawn character by character
MaxLines == 3    \* most lines of an input assembled from SampleLines
MaxWild == 1     \* cells past kvp_buffer a run-away scan may cross

\* ------------------------------------------------------- character codes
NUL == 0
LF == 10
SPACE == 32
HASH == 35
SEMI == 59
EQUALS == 61
LBRACKET == 91
RBRACKET == 93
DEL == 127
nullptr == -1

At(s, p) == s[p + 1]

isgraph(c) == c > SPACE /\ c # DEL
iseol(c) == c = LF \/ c = NUL
iscomment(c) == c = SEMI \/ c = HASH

RECURSIVE nextline(_, _)
nextline(in, p) == IF iseol(At(in, p)) THEN p + 1 ELSE nextline(in, p + 1)

\* for (; !iseol(*p) && !isgraph(*p); ++p);
RECURSIVE skipblank(_, _)
skipblank(in, p) ==
    IF ~iseol(At(in, p)) /\ ~isgraph(At(in, p)) THEN skipblank(in, p + 1) ELSE p

\* ------------------------------------------------------- verify_and_size
NoError == "none"
BadSection == "Bad section tag!"
BadKey == "Invalid key!"
NoValue == "No value!"

\* do { ++sizechars; ++p; } while (!iseol(*p) && *p != ']');  p enters at '['
RECURSIVE verify_section(_, _)
verify_section(in, p) ==
    LET q == p + 1
    IN  IF ~iseol(At(in, q)) /\ At(in, q) # RBRACKET
        THEN verify_section(in, q) ELSE q

\* the key loop: n counts the key's characters, bad is the throw inside it
RECURSIVE verify_key(_, _, _, _)
verify_key(in, p, keyend, n) ==
    IF iseol(At(in, p)) \/ At(in, p) = EQUALS
    THEN [p |-> p, n |-> n, bad |-> FALSE]
    ELSE IF ~keyend
         THEN IF ~isgraph(At(in, p))
              THEN verify_key(in, p + 1, TRUE, n)
              ELSE verify_key(in, p + 1, FALSE, n + 1)
         ELSE IF isgraph(At(in, p))
              THEN [p |-> p, n |-> n, bad |-> TRUE]
              ELSE verify_key(in, p + 1, TRUE, n)

\* a value loop without valuestart: the whitespace after '=' is counted too
RECURSIVE verify_value_untrimmed(_, _, _, _)
verify_value_untrimmed(in, p, valuestart, n) ==
    IF iseol(At(in, p)) THEN n
    ELSE verify_value_untrimmed(in, p + 1, TRUE, n + 1)

\* the value loop: the number of characters from the first graphic one on
RECURSIVE verify_value(_, _, _, _)
verify_value(in, p, valuestart, n) ==
    IF iseol(At(in, p)) THEN n
    ELSE LET vs == valuestart \/ isgraph(At(in, p))
         IN  verify_value(in, p + 1, vs, IF vs THEN n + 1 ELSE n)

\* the key/value terminators added for an accepted key=value line
kvp_terminators == 2

\* one pass of the do-while body: the error thrown, or the chars added
verify_line(in, line) ==
    LET p == skipblank(in, line)
    IN  IF iseol(At(in, p)) \/ iscomment(At(in, p))
        THEN [error |-> NoError, add |-> 0]
        ELSE IF At(in, p) = LBRACKET
        THEN LET q == verify_section(in, p)
             IN  IF iseol(At(in, q))
                 THEN [error |-> BadSection, add |-> 0]
                 ELSE [error |-> NoError, add |-> (q - p) + 1]
        ELSE LET k == verify_key(in, p, FALSE, 0)
             IN  IF k.bad \/ At(in, k.p) # EQUALS
                 THEN [error |-> BadKey, add |-> 0]
                 ELSE LET v == verify_value(in, k.p + 1, FALSE, 0)
                      IN  IF v = 0
                          THEN [error |-> NoValue, add |-> 0]
                          ELSE [error |-> NoError, add |-> k.n + v + kvp_terminators]

RECURSIVE verify_from(_, _, _)
verify_from(in, line, sizechars) ==
    LET r == verify_line(in, line)
        nl == nextline(in, line)
    IN  IF r.error # NoError
        THEN [error |-> r.error, sizechars |-> 0]
        ELSE IF nl # Len(in)
             THEN verify_from(in, nl, sizechars + r.add)
             ELSE [error |-> NoError, sizechars |-> sizechars + r.add]

verify_and_size(in) == verify_from(in, 0, 0)

\* -------------------------------------------------------------- kvpcount
RECURSIVE kvpcount_from(_, _, _)
kvpcount_from(in, line, count) ==
    LET p == skipblank(in, line)
        c == IF iseol(At(in, p)) \/ iscomment(At(in, p)) \/ At(in, p) = LBRACKET
             THEN count ELSE count + 1
        nl == nextline(in, line)
    IN  IF nl # Len(in) THEN kvpcount_from(in, nl, c) ELSE c

kvpcount(in) == kvpcount_from(in, 0, 0)

\* ------------------------------------------------------- fill_kvp_buffer
\* Every write of fill_kvp_buffer but the last is *bptr++ = c, so the writes
\* form a sequence: its i-th element is the character stored at offset i-1.

\* do { *bptr++ = *p++; } while (*p != ']');  p enters at '['.  verify_and_size
\* has seen the ']' of every header; the literal's final '\0' ends the scan
\* of a text it never accepted.
RECURSIVE fill_section(_, _, _)
fill_section(in, p, out) ==
    LET w == Append(out, At(in, p))
        q == p + 1
    IN  IF At(in, q) # RBRACKET /\ q + 1 < Len(in)
        THEN fill_section(in, q, w) ELSE w

RECURSIVE fill_key(_, _, _, _)
fill_key(in, p, keyend, out) ==
    IF iseol(At(in, p)) \/ At(in, p) = EQUALS
    THEN [p |-> p, out |-> out]
    ELSE IF ~keyend
         THEN IF ~isgraph(At(in, p))
              THEN fill_key(in, p + 1, TRUE, out)
              ELSE fill_key(in, p + 1, FALSE, Append(out, At(in, p)))
         ELSE fill_key(in, p + 1, TRUE, out)

\* a value loop without valuestart: the whitespace after '=' is copied too
RECURSIVE fill_value_untrimmed(_, _, _, _)
fill_value_untrimmed(in, p, valuestart, out) ==
    IF p >= Len(in) \/ iseol(At(in, p)) THEN out
    ELSE fill_value_untrimmed(in, p + 1, TRUE, Append(out, At(in, p)))

\* the value loop; past the literal's final '\0' there is nothing to copy
RECURSIVE fill_value(_, _, _, _)
fill_value(in, p, valuestart, out) ==
    IF p >= Len(in) \/ iseol(At(in, p)) THEN out
    ELSE LET vs == valuestart \/ isgraph(At(in, p))
         IN  fill_value(in, p + 1, vs, IF vs THEN Append(out, At(in, p)) ELSE out)

fill_line(in, line, out) ==
    LET p == skipblank(in, line)
    IN  IF iseol(At(in, p)) \/ iscomment(At(in, p))
        THEN out
        ELSE IF At(in, p) = LBRACKET
        THEN Append(fill_section(in, p, out), NUL)
        ELSE LET k == fill_key(in, p, FALSE, out)
             IN  Append(fill_value(in, k.p + 1, FALSE, Append(k.out, NUL)), NUL)

RECURSIVE fill_from(_, _, _)
fill_from(in, line, out) ==
    LET w == fill_line(in, line, out)
        nl == nextline(in, line)
    IN  IF nl # Len(in) THEN fill_from(in, nl, w) ELSE w

\* the characters written through bptr before the final terminator
fill_writes(in) == fill_from(in, 0, <<>>)

\* char_type kvp_buffer[verify_and_size() + 1] = {} after the writes ws and
\* the final *bptr = '\0'; a write outside the array is dropped and flagged
buffer_after(ws, size) ==
    [i \in 1..(size + 1) |-> IF i <= Len(ws) THEN ws[i] ELSE NUL]

\* ---------------------------------------------------------------- iterator
\* An iterator is [pos, section, first, second]: m_pos and the three
\* pointers of m_current.  kvp_buffer has Len(buf) elements, offsets
\* 0 .. Len(buf)-1; a read at a greater offset is outside the array and may
\* yield any character, so every operation below gives the SET of iterators
\* it can leave behind.  A scan that has left the array is followed for at
\* most MaxWild cells.

default_iterator ==
    [pos |-> nullptr, section |-> nullptr, first |-> nullptr, second |-> nullptr]

inside(buf, p) == p < Len(buf)

\* while (*m_pos++ != '\0');  the offsets it can end at
RECURSIVE span_ends(_, _)
span_ends(buf, p) ==
    IF inside(buf, p)
    THEN IF At(buf, p) = NUL THEN {p + 1} ELSE span_ends(buf, p + 1)
    ELSE (p + 1)..(Len(buf) + MaxWild)

\* while (*m_pos == '[') { m_current.section = m_pos + 1; while (*m_pos++ != '\0'); }
RECURSIVE enter_sections(_, _)
enter_sections(buf, c) ==
    LET enter == UNION {enter_sections(buf, [c EXCEPT !.section = c.pos + 1, !.pos = q])
                          : q \in span_ends(buf, c.pos)}
    IN  IF inside(buf, c.pos)
        THEN IF At(buf, c.pos) = LBRACKET THEN enter ELSE {c}
        ELSE {c} \cup enter

\* m_current.first = m_pos; skip; m_current.second = m_pos; skip
read_entry(buf, c) ==
    UNION {{[pos |-> p2, section |-> c.section, first |-> c.pos, second |-> p1]
              : p2 \in span_ends(buf, p1)}
             : p1 \in span_ends(buf, c.pos)}

at_end_marker(buf, c) ==
    {[c EXCEPT !.first = nullptr]}

get_next(buf, c) ==
    LET entries == UNION {read_entry(buf, m) : m \in enter_sections(buf, c)}
    IN  IF inside(buf, c.pos)
        THEN IF At(buf, c.pos) = NUL THEN at_end_marker(buf, c) ELSE entries
        ELSE at_end_marker(buf, c) \cup entries

\* iterator(const char_type *pos)
iterator(buf, pos) ==
    UNION {get_next(buf, m) : m \in enter_sections(buf, [default_iterator EXCEPT !.pos = pos])}

begin(buf) == iterator(buf, 0)
end(buf) == iterator(buf, Len(buf) - 1)

\* the greatest offset read by the operation that left the iterator n behind:
\* the end check reads *m_pos alone, an entry ends on the terminator at m_pos - 1
last_read(n) == IF n.first = nullptr THEN n.pos ELSE n.pos - 1

iterator_eq(a, b) == a.pos = b.pos /\ a.first = b.first

three_way(x, y) == IF x < y THEN "less" ELSE IF x > y THEN "greater" ELSE "equal"

iterator_cmp(a, b) ==
    IF three_way(a.pos, b.pos) # "equal" THEN three_way(a.pos, b.pos)
    ELSE IF a.first = nullptr THEN "greater"
    ELSE IF b.first = nullptr THEN "less"
    ELSE three_way(a.first, b.first)

\* ------------------------------------------------------------- query layer
\* A C string argument (a section name, a key) is the sequence of its
\* characters; the terminating '\0' is implicit.

CharOf(b, i) == IF i <= Len(b) THEN b[i] ELSE NUL

\* stringmatch(a, b) with a inside kvp_buffer: the loop, then the return
RECURSIVE stringmatch_from(_, _, _, _)
stringmatch_from(buf, a, b, i) ==
    LET ca == At(buf, a + i - 1)
        cb == CharOf(b, i)
    IN  IF ca = cb /\ (ca # NUL \/ cb # NUL)
        THEN stringmatch_from(buf, a, b, i + 1)
        ELSE IF ca = cb /\ ca = NUL THEN "match" ELSE "differ"

\* stringmatch(a, b): dereferencing nullptr faults, a pointer outside the
\* array compares against whatever lies there
stringmatch(buf, a, b) ==
    IF a = nullptr THEN {"fault"}
    ELSE IF ~inside(buf, a) THEN {"match", "differ"}
    ELSE {stringmatch_from(buf, a, b, 1)}

\* the C string at offset p of kvp_buffer
RECURSIVE string_at(_, _)
string_at(buf, p) ==
    IF At(buf, p) = NUL THEN <<>> ELSE <<At(buf, p)>> \o string_at(buf, p + 1)

\* What a query leaves behind.  status: "returned", "fault" (a null pointer
\* was dereferenced), "diverges" (the loop never exits), "wild" (the pointer
\* returned lies outside kvp_buffer).
Outcome(status) ==
    [status |-> status, value |-> <<>>, flag |-> FALSE,
     from |-> default_iterator, to |-> default_iterator, entries |-> <<>>]

reaches_end(buf, c) == \E e \in end(buf) : iterator_eq(c, e)

\* begin(section): do { if (...) break; } while (++it != end());
RECURSIVE begin_section_loop(_, _, _)
begin_section_loop(buf, c, section) ==
    LET step == UNION {IF reaches_end(buf, n)
                       THEN {[Outcome("returned") EXCEPT !.to = n]}
                       ELSE IF n = c THEN {Outcome("diverges")}
                       ELSE begin_section_loop(buf, n, section)
                         : n \in get_next(buf, c)}
        found == IF c.section = nullptr THEN {"differ"}
                 ELSE stringmatch(buf, c.section, section)
    IN  UNION {IF m = "match" THEN {[Outcome("returned") EXCEPT !.to = c]}
               ELSE IF m = "fault" THEN {Outcome("fault")}
               ELSE step
                 : m \in found}

begin_section(buf, section) ==
    UNION {begin_section_loop(buf, c, section) : c \in begin(buf)}

\* end(section): while (++it != end() && stringmatch(it->section, section));
RECURSIVE end_section_loop(_, _, _)
end_section_loop(buf, c, section) ==
    UNION {IF reaches_end(buf, n)
           THEN {[Outcome("returned") EXCEPT !.to = n]}
           ELSE UNION {IF m = "differ" THEN {[Outcome("returned") EXCEPT !.to = n]}
                       ELSE IF m = "fault" THEN {Outcome("fault")}
                       ELSE IF n = c THEN {Outcome("diverges")}
                       ELSE end_section_loop(buf, n, section)
                         : m \in stringmatch(buf, n.section, section)}
             : n \in get_next(buf, c)}

end_section(buf, section) ==
    UNION {IF b.status = "returned" THEN end_section_loop(buf, b.to, section) ELSE {b}
             : b \in begin_section(buf, section)}

\* section_view(ini, section): m_begin(ini.begin(section)), m_end(ini.end(section))
section_view(buf, section) ==
    UNION {IF b.status # "returned" THEN {b}
           ELSE {IF e.status # "returned" THEN e
                 ELSE [Outcome("returned") EXCEPT !.from = b.to, !.to = e.to]
                   : e \in end_section(buf, section)}
             : b \in begin_section(buf, section)}

\* the whole store as a range: begin() and end()
whole_view(buf) ==
    {[Outcome("returned") EXCEPT !.from = b, !.to = e] : b \in begin(buf), e \in end(buf)}

kvp_of(c) == [section |-> c.section, first |-> c.first, second |-> c.second]

\* for (auto kvp : range): the entries the loop body is run on
RECURSIVE range_for(_, _, _, _)
range_for(buf, c, last, seen) ==
    IF iterator_eq(c, last)
    THEN {[Outcome("returned") EXCEPT !.entries = seen]}
    ELSE UNION {IF n = c THEN {[Outcome("diverges") EXCEPT !.entries = Append(seen, kvp_of(c))]}
                ELSE range_for(buf, n, last, Append(seen, kvp_of(c)))
                  : n \in get_next(buf, c)}

entries_of(buf, views) ==
    UNION {IF v.status # "returned" THEN {v}
           ELSE {[o EXCEPT !.from = v.from, !.to = v.to]
                   : o \in range_for(buf, v.from, v.to, <<>>)}
             : v \in views}

\* return kvp.second;
value_at(buf, p) ==
    IF inside(buf, p) THEN [Outcome("returned") EXCEPT !.value = string_at(buf, p)]
    ELSE Outcome("wild")

\* for (auto kvp : range) { if (stringmatch(kvp.first, key)) return kvp.second; } return "";
RECURSIVE get_loop(_, _, _, _)
get_loop(buf, c, last, key) ==
    IF iterator_eq(c, last)
    THEN {Outcome("returned")}
    ELSE UNION {IF m = "match" THEN {value_at(buf, c.second)}
                ELSE IF m = "fault" THEN {Outcome("fault")}
                ELSE UNION {IF n = c THEN {Outcome("diverges")}
                            ELSE get_loop(buf, n, last, key)
                              : n \in get_next(buf, c)}
                  : m \in stringmatch(buf, c.first, key)}

get_in(buf, views, key) ==
    UNION {IF v.status # "returned" THEN {v} ELSE get_loop(buf, v.from, v.to, key)
             : v \in views}

\* get(key)
get(buf, key) == get_in(buf, whole_view(buf), key)

\* get(sec, key)
get_section(buf, sec, key) == get_in(buf, section_view(buf, sec), key)

\* *get(...) != '\0'
contains_of(gets) ==
    UNION {IF g.status = "returned" THEN {[g EXCEPT !.flag = (g.value # <<>>)]}
           ELSE IF g.status = "wild" THEN {[g EXCEPT !.flag = f] : f \in BOOLEAN}
           ELSE {g}
             : g \in gets}

contains(buf, key) == contains_of(get(buf, key))
contains_section(buf, sec, key) == contains_of(get_section(buf, sec, key))

\* ------------------------------------------------------------------ inputs
Alphabet == {97, EQUALS, LBRACKET, RBRACKET, SPACE, LF, SEMI}

RECURSIVE StringsOf(_)
StringsOf(n) ==
    IF n = 0 THEN {<<>>}
    ELSE LET S == StringsOf(n - 1)
         IN  S \cup {Append(s, c) : s \in {t \in S : Len(t) = n - 1}, c \in Alphabet}

SampleLines ==
    { <<LBRACKET, 97, RBRACKET>>,            \* [a]
      <<LBRACKET, 98, RBRACKET>>,            \* [b]
      <<LBRACKET, RBRACKET>>,                \* []
      <<97, EQUALS, 97>>,                    \* a=a
      <<98, SPACE, EQUALS, SPACE, 97, SPACE>>, \* b = a_
      <<97, EQUALS, 98>>,                    \* a=b
      <<HASH, 97>>,                          \* #a
      <<97, DEL, EQUALS, DEL, 98>> }         \* a<DEL>=<DEL>b

RECURSIVE LinesOf(_)
LinesOf(n) ==
    IF n = 0 THEN {<<>>}
    ELSE LET S == LinesOf(n - 1)
         IN  S \cup SampleLines
               \cup {s \o <<LF>> \o l : s \in {t \in S : t # <<>>}, l \in SampleLines}

\* string literals: the text followed by its terminating '\0'
Inputs == {s \o <<NUL>> : s \in StringsOf(MaxLen) \cup LinesOf(MaxLines)}

\* ------------------------------------------------------------------- state
\* the section names and keys the queries are called with
Names == {<<>>, <<97>>, <<98>>}

Call(op, sec, key, o) == [op |-> op, sec |-> sec, key |-> key, out |-> o]
NoCall == Call("none", <<>>, <<>>, Outcome("none"))

VARIABLES input, pc, sizechars, error, kvp_buffer, bptr, overrun,
          it, other, hiread, ret

vars == <<input, pc, sizechars, error, kvp_buffer, bptr, overrun, it, other, hiread, ret>>

Init ==
    /\ input \in Inputs
    /\ pc = "start"
    /\ sizechars = 0
    /\ error = NoError
    /\ kvp_buffer = <<>>
    /\ bptr = 0
    /\ overrun = FALSE
    /\ it = default_iterator
    /\ other = default_iterator
    /\ hiread = -1
    /\ ret = NoCall

\* instantiating ini_config<Input>: the array bound verify_and_size() + 1
Verify ==
    /\ pc = "start"
    /\ LET r == verify_and_size(input)
       IN  /\ error' = r.error
           /\ sizechars' = r.sizechars
           /\ pc' = IF r.error = NoError THEN "sized" ELSE "rejected"
    /\ UNCHANGED <<input, kvp_buffer, bptr, overrun, it, other, hiread, ret>>

\* the constructor: fill_kvp_buffer()
Fill ==
    /\ pc = "sized"
    /\ LET ws == fill_writes(input)
       IN  /\ bptr' = Len(ws)
           /\ overrun' = (Len(ws) > sizechars)
           /\ kvp_buffer' = buffer_after(ws, sizechars)
    /\ pc' = "ready"
    /\ UNCHANGED <<input, sizechars, error, it, other, hiread, ret>>

build == <<input, pc, sizechars, error, kvp_buffer, bptr, overrun>>

Max(a, b) == IF a > b THEN a ELSE b

\* it = begin()
Begin ==
    /\ pc = "ready"
    /\ \E n \in begin(kvp_buffer) :
          /\ it' = n
          /\ hiread' = Max(hiread, last_read(n))
    /\ UNCHANGED <<build, other, ret>>

\* it = end()
End ==
    /\ pc = "ready"
    /\ \E n \in end(kvp_buffer) :
          /\ it' = n
          /\ hiread' = Max(hiread, last_read(n))
    /\ UNCHANGED <<build, other, ret>>

\* ++it
Advance ==
    /\ pc = "ready"
    /\ it.pos # nullptr
    /\ \E n \in get_next(kvp_buffer, it) :
          /\ it' = n
          /\ hiread' = Max(hiread, last_read(n))
    /\ UNCHANGED <<build, other, ret>>

\* other = begin()
OtherBegin ==
    /\ pc = "ready"
    /\ \E n \in begin(kvp_buffer) :
          /\ other' = n
          /\ hiread' = Max(hiread, last_read(n))
    /\ UNCHANGED <<build, it, ret>>

\* other = end()
OtherEnd ==
    /\ pc = "ready"
    /\ \E n \in end(kvp_buffer) :
          /\ other' = n
          /\ hiread' = Max(hiread, last_read(n))
    /\ UNCHANGED <<build, it, ret>>

\* ++other
OtherAdvance ==
    /\ pc = "ready"
    /\ other.pos # nullptr
    /\ \E n \in get_next(kvp_buffer, other) :
          /\ other' = n
          /\ hiread' = Max(hiread, last_read(n))
    /\ UNCHANGED <<build, it, ret>>

Next ==
    \/ Verify \/ Fill
    \/ Begin \/ End \/ Advance
    \/ OtherBegin \/ OtherEnd \/ OtherAdvance

Spec == Init /\ [][Next]_vars

\* for (auto kvp : ini)
Iterate ==
    /\ pc = "ready"
    /\ \E o \in entries_of(kvp_buffer, whole_view(kvp_buffer)) :
          ret' = Call("iterate", <<>>, <<>>, o)
    /\ UNCHANGED <<build, it, other, hiread>>

\* for (auto kvp : ini.section(s))
Section ==
    /\ pc = "ready"
    /\ \E s \in Names :
          \E o \in entries_of(kvp_buffer, section_view(kvp_buffer, s)) :
             ret' = Call("section", s, <<>>, o)
    /\ UNCHANGED <<build, it, other, hiread>>

\* ini.get(key)
Get ==
    /\ pc = "ready"
    /\ \E k \in Names :
          \E o \in get(kvp_buffer, k) :
             ret' = Call("get", <<>>, k, o)
    /\ UNCHANGED <<build, it, other, hiread>>

\* ini.get(sec, key)
GetSection ==
    /\ pc = "ready"
    /\ \E s \in Names, k \in Names :
          \E o \in get_section(kvp_buffer, s, k) :
             ret' = Call("get_section", s, k, o)
    /\ UNCHANGED <<build, it, other, hiread>>

\* ini.contains(key)
Contains ==
    /\ pc = "ready"
    /\ \E k \in Names :
          \E o \in contains(kvp_buffer, k) :
             ret' = Call("contains", <<>>, k, o)
    /\ UNCHANGED <<build, it, other, hiread>>

\* ini.contains(sec, key)
ContainsSection ==
    /\ pc = "ready"
    /\ \E s \in Names, k \in Names :
          \E o \in contains_section(kvp_buffer, s, k) :
             ret' = Call("contains_section", s, k, o)
    /\ UNCHANGED <<build, it, other, hiread>>

QueryNext ==
    \/ Verify \/ Fill
    \/ Iterate \/ Section
    \/ Get \/ GetSection
    \/ Contains \/ ContainsSection

QuerySpec == Init /\ [][QueryNext]_vars
\* ===================================================================== claims
\* The source text read line by line, as the grammar describes it.

Text(in) == SubSeq(in, 1, Len(in) - 1)

Least(S) == CHOOSE x \in S : \A y \in S : x <= y
Greatest(S) == CHOOSE x \in S : \A y \in S : x >= y

FirstIndex(s, c) ==
    LET I == {i \in 1..Len(s) : s[i] = c}
    IN  IF I = {} THEN 0 ELSE Least(I)

RECURSIVE SplitLines(_)
SplitLines(s) ==
    LET i == FirstIndex(s, LF)
    IN  IF i = 0 THEN <<s>>
        ELSE <<SubSeq(s, 1, i - 1)>> \o SplitLines(SubSeq(s, i + 1, Len(s)))

SrcLines == SplitLines(Text(input))

Printable(c) == c \in 33..126

StripLeft(s) ==
    LET I == {i \in 1..Len(s) : Printable(s[i])}
    IN  IF I = {} THEN <<>> ELSE SubSeq(s, Least(I), Len(s))

StripBoth(s) ==
    LET I == {i \in 1..Len(s) : Printable(s[i])}
    IN  IF I = {} THEN <<>> ELSE SubSeq(s, Least(I), Greatest(I))

LineKind(l) ==
    LET s == StripLeft(l)
    IN  IF s = <<>> \/ s[1] \in {SEMI, HASH} THEN "skipped"
        ELSE IF s[1] = LBRACKET THEN "header"
        ELSE "entry"

\* the failures a line gives rise to
Failures(l) ==
    LET s == StripLeft(l)
        e == FirstIndex(s, EQUALS)
        upto == IF e = 0 THEN Len(s) ELSE e - 1
    IN  IF LineKind(l) = "skipped" THEN {}
        ELSE IF LineKind(l) = "header"
        THEN IF FirstIndex(s, RBRACKET) = 0 THEN {BadSection} ELSE {}
        ELSE (IF e = 0 \/ \E i, j \in 1..upto :
                             i < j /\ ~Printable(s[i]) /\ Printable(s[j])
              THEN {BadKey} ELSE {})
             \cup
             (IF e # 0 /\ \A j \in (e + 1)..Len(s) : ~Printable(s[j])
              THEN {NoValue} ELSE {})

BadLines == {i \in 1..Len(SrcLines) : Failures(SrcLines[i]) # {}}

\* the entries the source describes, in source order
Absent == [present |-> FALSE, name |-> <<>>]
Named(n) == [present |-> TRUE, name |-> n]

HeaderName(l) ==
    LET s == StripLeft(l) IN SubSeq(s, 2, FirstIndex(s, RBRACKET) - 1)
KeyOf(l) ==
    LET s == StripLeft(l) IN StripBoth(SubSeq(s, 1, FirstIndex(s, EQUALS) - 1))
ValueOf(l) ==
    LET s == StripLeft(l) IN StripLeft(SubSeq(s, FirstIndex(s, EQUALS) + 1, Len(s)))

RECURSIVE ExpectedFrom(_, _, _)
ExpectedFrom(L, i, cur) ==
    IF i > Len(L) THEN <<>>
    ELSE IF LineKind(L[i]) = "header" THEN ExpectedFrom(L, i + 1, Named(HeaderName(L[i])))
    ELSE IF LineKind(L[i]) = "entry"
         THEN <<[section |-> cur, key |-> KeyOf(L[i]), value |-> ValueOf(L[i])]>>
                \o ExpectedFrom(L, i + 1, cur)
    ELSE ExpectedFrom(L, i + 1, cur)

Expected == ExpectedFrom(SrcLines, 1, Absent)

\* what an entry handed out by a cursor shows
Shown(p) ==
    IF p = nullptr THEN <<-1>>
    ELSE IF ~inside(kvp_buffer, p) THEN <<-2>>
    ELSE string_at(kvp_buffer, p)
ShownSection(p) == IF p = nullptr THEN Absent ELSE Named(Shown(p))
ShownEntry(k) ==
    [section |-> ShownSection(k.section), key |-> Shown(k.first), value |-> Shown(k.second)]
ShownEntries(ks) == [i \in 1..Len(ks) |-> ShownEntry(ks[i])]

\* the first maximal contiguous run of the entries whose section is n
FirstRun(E, n) ==
    LET I == {i \in 1..Len(E) : E[i].section = Named(n)}
    IN  IF I = {} THEN <<>>
        ELSE LET a == Least(I)
                 b == Greatest({j \in a..Len(E) : \A k \in a..j : k \in I})
             IN  SubSeq(E, a, b)

\* the section names whose header is followed by no entry and that no entry carries
EmptySections ==
    {n \in Names :
        /\ \E i \in 1..Len(SrcLines) :
              /\ LineKind(SrcLines[i]) = "header"
              /\ HeaderName(SrcLines[i]) = n
              /\ \A j \in (i + 1)..Len(SrcLines) :
                    LineKind(SrcLines[j]) = "entry"
                      => \E k \in (i + 1)..(j - 1) : LineKind(SrcLines[k]) = "header"
        /\ \A i \in 1..Len(Expected) : Expected[i].section # Named(n)}

\* C1: when fill_kvp_buffer is done its write offset equals verify_and_size(),
\* the final terminator is stored at that offset of the
\* (verify_and_size()+1)-element kvp_buffer, and no write fell outside it.
C1_FillMatchesSize ==
    pc = "ready" =>
        /\ bptr = sizechars
        /\ ~overrun
        /\ Len(kvp_buffer) = sizechars + 1
        /\ kvp_buffer[bptr + 1] = NUL

C1_Witness ==
    /\ pc = "ready"
    /\ Len(Expected) >= 1
    /\ \E i \in 1..Len(SrcLines) : LineKind(SrcLines[i]) = "header"
    /\ bptr > 0

\* C5: verify_and_size rejects exactly the inputs with a failing line, the
\* error it reports is one the first failing line gives rise to, a rejected
\* input has no buffer, and every other input is accepted.
C5_RejectsExactlyBadLines ==
    pc # "start" =>
        /\ (error # NoError) <=> (BadLines # {})
        /\ BadLines # {} => error \in Failures(SrcLines[Least(BadLines)])
        /\ error # NoError => pc = "rejected" /\ kvp_buffer = <<>>
        /\ BadLines = {} => pc \in {"sized", "ready"}

C5_Witness ==
    /\ pc = "rejected"
    /\ error = NoValue
    /\ Cardinality(BadLines) >= 1
    /\ Least(BadLines) > 1

\* C8: in the packed buffer of an accepted input no key span and no value
\* span is empty: ahead of the final terminator no terminator stands at
\* offset 0 or right after another terminator.
C8_NoEmptySpan ==
    pc = "ready" =>
        \A i \in 1..sizechars :
            kvp_buffer[i] = NUL => i > 1 /\ kvp_buffer[i - 1] # NUL

\* C9: a cursor made by begin() or end() and advanced any number of times
\* stays within [0, verify_and_size()], no cursor operation reads an offset
\* past verify_and_size(), and advancing a cursor that equals end() leaves
\* its position unchanged and its key absent.
C9_CursorInBounds ==
    (pc = "ready" /\ it.pos # nullptr) =>
        /\ it.pos \in 0..sizechars
        /\ hiread <= sizechars
        /\ reaches_end(kvp_buffer, it) =>
              \A n \in get_next(kvp_buffer, it) : n.pos = it.pos /\ n.first = nullptr

\* C10: for two cursors over the same buffer operator<=> yields equal
\* exactly when operator== yields true, and a <=> b is less exactly when
\* b <=> a is greater.
C10_OrderAgreesWithEquality ==
    (pc = "ready" /\ it.pos # nullptr /\ other.pos # nullptr) =>
        /\ (iterator_cmp(it, other) = "equal") <=> iterator_eq(it, other)
        /\ (iterator_cmp(it, other) = "less") <=> (iterator_cmp(other, it) = "greater")

\* C2: get(k) returns the value of the key=value line whose key is k (of
\* the first such line, get being a scan for the first match), with the
\* leading whitespace removed and the trailing whitespace kept.
C2_GetRoundTrip ==
    (pc = "ready" /\ ret.op = "get") =>
        \A i \in 1..Len(Expected) :
            (Expected[i].key = ret.key /\ \A j \in 1..(i - 1) : Expected[j].key # ret.key)
              => ret.out.status = "returned" /\ ret.out.value = Expected[i].value

\* C3: every entry handed out on the way from begin() belongs to a
\* key=value line and carries that line's section: absent ahead of every
\* header, else the name of the nearest header before the line.
C3_SectionScoping ==
    (pc = "ready" /\ ret.op = "iterate") =>
        \A i \in 1..Len(ret.out.entries) :
            /\ i <= Len(Expected)
            /\ ShownSection(ret.out.entries[i].section) = Expected[i].section

\* C4: iterating from begin() ends at end() after exactly size() advances,
\* having handed out the key=value lines of the source in source order.
C4_OneEntryPerLine ==
    (pc = "ready" /\ ret.op = "iterate") =>
        /\ ret.out.status = "returned"
        /\ Len(ret.out.entries) = kvpcount(input)
        /\ Len(ret.out.entries) = Len(Expected)
        /\ \A i \in 1..Len(ret.out.entries) :
              /\ Shown(ret.out.entries[i].first) = Expected[i].key
              /\ Shown(ret.out.entries[i].second) = Expected[i].value

\* C6: for a section whose header is followed by no key=value line and
\* that no entry carries, begin(sec) == end(sec) and the view is empty.
C6_EmptySectionView ==
    (pc = "ready" /\ ret.op = "section" /\ ret.sec \in EmptySections) =>
        /\ ret.out.status = "returned"
        /\ iterator_eq(ret.out.from, ret.out.to)
        /\ ret.out.entries = <<>>

\* C7: section(name) hands out exactly the first maximal contiguous run of
\* the entries whose section is name, and get(section, key) and
\* contains(section, key) look at that run alone.
C7_FirstContiguousRun ==
    LET run == FirstRun(Expected, ret.sec)
        hit == {i \in 1..Len(run) : run[i].key = ret.key}
        val == IF hit = {} THEN <<>> ELSE run[Least(hit)].value
    IN  pc = "ready" =>
          /\ ret.op = "section" =>
                ret.out.status = "returned" /\ ShownEntries(ret.out.entries) = run
          /\ ret.op = "get_section" =>
                ret.out.status = "returned" /\ ret.out.value = val
          /\ ret.op = "contains_section" =>
                ret.out.status = "returned" /\ ret.out.flag = (hit # {})
====
